---- MODULE Spec2Model ----
(***************************************************************************)
(* Model of pypm.particlemesh.ParticleMesh on one rank (np = (1,1)).       *)
(*                                                                         *)
(* Numbers.  Every quantity is carried exactly, as an integer:             *)
(*   - BoxSize is 1/InvBoxSize, so (1.0/BoxSize)**3 is InvBoxSize^3;        *)
(*   - a position coordinate x is the numerator of x over PosDen;          *)
(*   - grid coordinates are in half cells (numerator over 2);              *)
(*   - field values are numerators over KernelDen = 2^Ndim, the            *)
(*     denominator of a CIC weight of a half-cell position.                *)
(* Nmesh is 2: the roots of unity of the transform are +1 and -1, so the   *)
(* discrete Fourier transform is exact in integers.                        *)
(***************************************************************************)
EXTENDS Integers, Sequences, FiniteSets, TLC

\* ------------------------------------------------------------------ bounds
\* calls a pipeline driver makes, calls a snapshot driver makes
MaxOps == 3
MaxStackOps == 4
\* largest mesh a k-vector is built for
MaxNmesh == 8
MaxCoord == 4
NRanks == 2
MaxCalls == 2

\* ------------------------------------------------- construction parameters
Nmesh == 2
InvBoxSize == 2
Ndim == 3

PosDen == 2 * Nmesh * InvBoxSize
KernelDen == 2 * 2 * 2

\* partition of the single rank: the local extent is the whole mesh
local_i_start == <<0, 0, 0>>
local_ni == <<Nmesh, Nmesh, Nmesh>>
local_o_start == <<0, 0, 0>>
local_no == <<Nmesh, Nmesh, Nmesh \div 2 + 1>>

\* ------------------------------------------------------- the aliased buffer
Axis == 0 .. (Nmesh - 1)
Cells == Axis \X Axis \X Axis
HalfAxis == 0 .. (Nmesh \div 2)
Modes == Axis \X Axis \X HalfAxis

\* one allocation of doubles; the complex view covers all of it
BufLen == 2 * local_no[1] * local_no[2] * local_no[3]
Addr == 0 .. (BufLen - 1)

\* address of real cell x: the input view is C-contiguous from the start
RAddr(x) == (x[1] * local_ni[2] + x[2]) * local_ni[3] + x[3]
\* address of the real part of mode k: transposed output, axes 0 and 1 swapped
CAddr(k) == 2 * ((k[2] * local_no[1] + k[1]) * local_no[3] + k[3])

RealAddrs == {RAddr(x) : x \in Cells}

\* the real cell stored at address a, and the mode whose real or imaginary
\* part is stored at address a
CellAt(a) == <<a \div (local_ni[2] * local_ni[3]), (a \div local_ni[3]) % local_ni[2], a % local_ni[3]>>
ModeAt(a) ==
    LET m == a \div 2
    IN  <<(m \div local_no[3]) % local_no[1], m \div (local_no[3] * local_no[1]), m % local_no[3]>>

\* an array holds values, not expressions: the array with its entries computed
Stored(f) == IF f = f THEN f ELSE f

RealView(b) == Stored([x \in Cells |-> b[RAddr(x)]])
ComplexView(b) == Stored([k \in Modes |-> <<b[CAddr(k)], b[CAddr(k) + 1]>>])

\* real[:] = r
WriteReal(b, r) ==
    Stored([a \in Addr |-> IF a \in RealAddrs THEN r[CellAt(a)] ELSE b[a]])

\* complex[:] = c
WriteComplex(b, c) ==
    Stored([a \in Addr |-> IF a % 2 = 0 THEN c[ModeAt(a)][1] ELSE c[ModeAt(a)][2]])

\* the cells, the modes and the neighbours in a fixed order
CellSeq == [i \in 1 .. (local_ni[1] * local_ni[2] * local_ni[3]) |-> CellAt(i - 1)]
ModeSeq == [i \in 1 .. (local_no[1] * local_no[2] * local_no[3]) |-> ModeAt(2 * (i - 1))]

\* f[s[1]] + ... + f[s[n]]
RECURSIVE SumF(_, _, _)
SumF(f, s, n) == IF n = 0 THEN 0 ELSE f[s[n]] + SumF(f, s, n - 1)

\* ------------------------------------------------------ coordinate maps
\* transform with the rank's local_i_start added instead of subtracted
transform_plus(x, start) ==
    Stored([d \in 1 .. Ndim |-> (2 * Nmesh * InvBoxSize * x[d]) \div PosDen + 2 * start[d]])

\* transform: (Nmesh / BoxSize) * x - local_i_start, in half cells, on a
\* rank whose partition starts at start
transform_at(x, start) ==
    Stored([d \in 1 .. Ndim |-> (2 * Nmesh * InvBoxSize * x[d]) \div PosDen - 2 * start[d]])

transform(x) == transform_at(x, local_i_start)

\* transform0: (Nmesh / BoxSize) * x, in half cells
transform0(x) ==
    Stored([d \in 1 .. Ndim |-> (2 * Nmesh * InvBoxSize * x[d]) \div PosDen])

\* ------------------------------------------------------------ CIC kernel
neighbours == {0, 1} \X {0, 1} \X {0, 1}
NeighbourSeq == [i \in 1 .. 8 |-> <<(i - 1) \div 4, ((i - 1) \div 2) % 2, (i - 1) % 2>>]

Abs(n) == IF n < 0 THEN 0 - n ELSE n

\* floor of a half-cell coordinate
intpos(g) == [d \in 1 .. Ndim |-> IF g[d] >= 0 THEN g[d] \div 2 ELSE 0 - ((1 - g[d]) \div 2)]

\* (1 - |gridpos - targetpos|).prod(), numerator over KernelDen
kernel(g, t) ==
    LET w(d) == 2 - Abs(g[d] - 2 * t[d])
    IN  w(1) * w(2) * w(3)

\* the cell a neighbour lands on, wrapped with the period
targetpos(g, e, period) ==
    [d \in 1 .. Ndim |-> (intpos(g)[d] + e[d]) % period]

\* mode = 'ignore': a target outside the local extent is dropped
InExtent(t) == \A d \in 1 .. Ndim : t[d] >= 0 /\ t[d] < local_ni[d]

\* what one particle at grid position g adds to cell x, per unit weight
CellWeight(g, x, period) ==
    LET hit(e) == LET t == targetpos(g, e, period)
                  IN  InExtent(t) /\ <<t[1], t[2], t[3]>> = x
        unwrapped(e) == [d \in 1 .. Ndim |-> intpos(g)[d] + e[d]]
    IN  SumF([e \in neighbours |-> IF hit(e) THEN kernel(g, unwrapped(e)) ELSE 0],
             NeighbourSeq, Len(NeighbourSeq))

RECURSIVE cic_paint(_, _, _, _)
\* cic.paint(pos, mesh, weights, mode='ignore', period, transform)
cic_paint(pos, mesh, weights, period) ==
    IF pos = <<>> THEN mesh
    ELSE LET g == transform(Head(pos))
             added == Stored([x \in Cells |-> mesh[x] + weights * CellWeight(g, x, period)])
         IN  cic_paint(Tail(pos), added, weights, period)

\* ------------------------------------------------------ external FFT plans
\* (-1)^(k . x): the character of the Nmesh = 2 transform
Sign(k, x) == IF (k[1] * x[1] + k[2] * x[2] + k[3] * x[3]) % 2 = 0 THEN 1 ELSE 0 - 1

\* forward.execute(real.base, complex.base): in place, the unnormalised
\* real-to-complex transform of the real view, written over the complex view
forward_execute(b) ==
    LET r == RealView(b)
        c == Stored([k \in Modes |-> <<SumF([x \in Cells |-> Sign(k, x) * r[x]], CellSeq, Len(CellSeq)), 0>>])
    IN  WriteComplex(b, c)

\* backward.execute(complex.base, real.base): in place, the unnormalised
\* complex-to-real transform of the complex view, written over the real view.
\* Every mode of the Nmesh = 2 mesh is its own conjugate, so only the real
\* parts enter.  The doubles past the real view are left as they are.
backward_execute(b) ==
    LET c == ComplexView(b)
        r == Stored([x \in Cells |-> SumF([k \in Modes |-> Sign(k, x) * c[k][1]], ModeSeq, Len(ModeSeq))])
    IN  WriteReal(b, r)

\* ------------------------------------------------------------- operations
\* an optional argument: None, or the value it carries
None == <<>>
Some(v) == <<v>>

\* clear(): the method has a docstring and no statement
clear(b) == b

\* paint that starts from an empty canvas
paint_replace(b, pos, mass) == WriteReal(b, cic_paint(pos, [x \in Cells |-> 0], mass, Nmesh))

\* paint(pos, mass): cic.paint accumulates into the real view
paint(b, pos, mass) == WriteReal(b, cic_paint(pos, RealView(b), mass, Nmesh))

\* the steps that are collective over the communicator
Collective == {"decompose", "allreduce", "barrier", "forward", "backward"}

\* a diagnostic that sums the real view in place
diagnostic_inplace(b, verbose, rank) ==
    LET total == SumF(RealView(b), CellSeq, Len(CellSeq))
    IN  IF verbose
        THEN [buf |-> WriteReal(b, [x \in Cells |-> total]),
              steps |-> <<"allreduce">> \o (IF rank = 0 THEN <<"print">> ELSE <<>>) \o <<"barrier">>,
              printed |-> IF rank = 0 THEN Some(total) ELSE None]
        ELSE [buf |-> b, steps |-> <<>>, printed |-> None]

\* a diagnostic whose reduction sits inside the rank-0 branch
diagnostic_rank0(b, verbose, rank) ==
    IF verbose
    THEN [buf |-> b,
          steps |-> (IF rank = 0 THEN <<"allreduce", "print">> ELSE <<>>) \o <<"barrier">>,
          printed |-> IF rank = 0
                      THEN Some(SumF(RealView(b), CellSeq, Len(CellSeq)))
                      ELSE None]
    ELSE [buf |-> b, steps |-> <<>>, printed |-> None]

\* if self.verbose: allreduce of real.sum(), print on rank 0, barrier
diagnostic(b, verbose, rank) ==
    IF verbose
    THEN [buf |-> b,
          steps |-> <<"allreduce">> \o (IF rank = 0 THEN <<"print">> ELSE <<>>) \o <<"barrier">>,
          printed |-> IF rank = 0
                      THEN Some(SumF(RealView(b), CellSeq, Len(CellSeq)))
                      ELSE None]
    ELSE [buf |-> b, steps |-> <<>>, printed |-> None]

\* r2c(pos, mass) on a mesh built with the given verbose flag, on the given
\* rank: the buffer it leaves, the steps it takes and what it prints
r2c_on(b, pos, mass, verbose, rank) ==
    LET painted == IF pos # None THEN paint(clear(b), pos[1], mass) ELSE b
        scaled == WriteReal(painted,
                    [x \in Cells |-> RealView(painted)[x] * InvBoxSize * InvBoxSize * InvBoxSize])
        diag == diagnostic(scaled, verbose, rank)
    IN  [buf |-> forward_execute(diag.buf),
         steps |-> (IF pos # None THEN <<"clear", "paint">> ELSE <<>>)
                   \o <<"scale">> \o diag.steps \o <<"forward">>,
         printed |-> diag.printed]

\* r2c that rescales only a freshly painted field
r2c_guarded(b, pos, mass) ==
    IF pos # None THEN r2c_on(b, pos, mass, FALSE, 0)
    ELSE [buf |-> forward_execute(b), steps |-> <<"forward">>, printed |-> None]

\* r2c(pos, mass), verbose left at its default False
r2c(b, pos, mass) == r2c_on(b, pos, mass, FALSE, 0)

\* push(): stack.append(complex.copy())
push(b, st) == Append(st, ComplexView(b))

\* list.pop(0): the oldest entry
PopIndex_first(st) == 1

\* the entry list.pop() removes
PopIndex(st) == Len(st)

\* pop that accepts an empty stack
pop_lenient(b, st) ==
    IF st = <<>>
    THEN [buf |-> b, stack |-> st, outcome |-> "ok"]
    ELSE [buf |-> WriteComplex(b, st[Len(st)]),
          stack |-> SubSeq(st, 1, Len(st) - 1),
          outcome |-> "ok"]

\* pop(): complex[:] = stack.pop(); list.pop() raises on an empty list
pop(b, st) ==
    IF st = <<>>
    THEN [buf |-> b, stack |-> st, outcome |-> "IndexError"]
    ELSE [buf |-> WriteComplex(b, st[PopIndex(st)]),
          stack |-> [i \in 1 .. (Len(st) - 1) |-> IF i < PopIndex(st) THEN st[i] ELSE st[i + 1]],
          outcome |-> "ok"]

\* wi[wi >= Nmesh // 2] -= Nmesh, on a mesh of n points: the folded integer
\* frequency of global index t; the k-vector entry is this times 2 pi / n
folded(n, t) == IF t >= n \div 2 THEN t - n ELSE t

\* the folded integer frequency of index i on this mesh
Fold(i) == folded(Nmesh, i)

\* wi for one axis: arange(extent) + start, folded; local index i is entry i + 1
kvector(n, start, extent) == [i \in 1 .. extent |-> folded(n, (i - 1) + start)]

\* w[d]: one k-vector per axis, over the local transposed extent
kvectors == [d \in 1 .. Ndim |-> [i \in 0 .. (local_no[d] - 1) |-> Fold(i + local_o_start[d])]]

\* the transfer functions a caller supplies: transfer(comm, complex, w)
\* mutates the complex field in place, or raises
TransferFunctions == {"addone", "laplace", "raise"}

Raises(f) == f = "raise"

ApplyTransfer(f, c, w) ==
    LET k2(k) == w[1][k[1]] * w[1][k[1]] + w[2][k[2]] * w[2][k[2]] + w[3][k[3]] * w[3][k[3]]
    IN  CASE f = "addone"  -> [k \in Modes |-> <<c[k][1] + 1, c[k][2]>>]
          [] f = "laplace" -> [k \in Modes |-> <<0 - k2(k) * c[k][1], 0 - k2(k) * c[k][2]>>]
          [] OTHER         -> c

\* for transfer in transfer_functions: transfer(comm, complex, w); called
\* lists the functions in the order they were called
RECURSIVE transfer_loop(_, _, _)
transfer_loop(b, chain, w) ==
    IF chain = <<>> THEN [buf |-> b, outcome |-> "ok", called |-> <<>>]
    ELSE IF Raises(Head(chain))
         THEN [buf |-> b, outcome |-> "TransferError", called |-> <<Head(chain)>>]
    ELSE LET rest == transfer_loop(WriteComplex(b, ApplyTransfer(Head(chain), ComplexView(b), w)),
                                   Tail(chain), w)
         IN  [buf |-> rest.buf, outcome |-> rest.outcome, called |-> <<Head(chain)>> \o rest.called]

RECURSIVE Reverse(_)
Reverse(s) == IF s = <<>> THEN <<>> ELSE Append(Reverse(Tail(s)), Head(s))

\* transfer that walks the chain from its end
transfer_reversed(b, chain) == transfer_loop(b, Reverse(chain), kvectors)

\* transfer(transfer_functions)
transfer(b, chain) == transfer_loop(b, chain, kvectors)

\* c2r that leaves out the restoring pop
c2r_nopop(b, st, chain) ==
    LET pushed == push(b, st)
        applied == transfer(b, chain)
    IN  IF applied.outcome # "ok"
        THEN [buf |-> applied.buf, stack |-> pushed, outcome |-> applied.outcome,
              steps |-> <<"push", "kvectors">> \o applied.called, printed |-> None]
        ELSE [buf |-> backward_execute(applied.buf), stack |-> pushed, outcome |-> "ok",
              steps |-> <<"push", "kvectors">> \o applied.called \o <<"backward">>,
              printed |-> None]

\* c2r(transfer_functions) on a mesh built with the given verbose flag, on
\* the given rank: push, transfer, backward, diagnostic, pop
c2r_on(b, st, chain, verbose, rank) ==
    LET pushed == push(b, st)
        applied == transfer(b, chain)
        diag == diagnostic(backward_execute(applied.buf), verbose, rank)
        popped == pop(diag.buf, pushed)
    IN  IF applied.outcome # "ok"
        THEN [buf |-> applied.buf, stack |-> pushed, outcome |-> applied.outcome,
              steps |-> <<"push", "kvectors">> \o applied.called,
              printed |-> None]
        ELSE [buf |-> popped.buf, stack |-> popped.stack, outcome |-> popped.outcome,
              steps |-> <<"push", "kvectors">> \o applied.called \o <<"backward">>
                        \o diag.steps \o <<"pop">>,
              printed |-> diag.printed]

\* c2r whose pop sits in a finally clause
c2r_finally(b, st, chain) ==
    LET res == c2r_on(b, st, chain, FALSE, 0)
        undone == pop(res.buf, res.stack)
    IN  IF res.outcome # "ok"
        THEN [buf |-> undone.buf, stack |-> undone.stack, outcome |-> res.outcome,
              steps |-> res.steps \o <<"pop">>, printed |-> None]
        ELSE res

\* c2r(transfer_functions), verbose left at its default False
c2r(b, st, chain) == c2r_on(b, st, chain, FALSE, 0)

\* what one particle at grid position g reads from the mesh,
\* numerator over KernelDen * KernelDen
ReadAt(g, mesh, period) == SumF([x \in Cells |-> CellWeight(g, x, period) * mesh[x]], CellSeq, Len(CellSeq))

\* cic.readout(mesh, pos, mode='ignore', period, transform)
cic_readout(mesh, pos, period) ==
    [i \in 1 .. Len(pos) |-> ReadAt(transform(pos[i]), mesh, period)]

\* readout that takes what it reads out of the field
readout_draining(b, pos) ==
    [buf |-> IF pos # None /\ pos[1] # <<>> THEN WriteReal(b, [x \in Cells |-> 0]) ELSE b,
     ret |-> IF pos # None THEN Some(cic_readout(RealView(b), pos[1], Nmesh)) ELSE None]

\* readout(pos): the buffer it leaves and the value it returns
readout(b, pos) ==
    [buf |-> b,
     ret |-> IF pos # None THEN Some(cic_readout(RealView(b), pos[1], Nmesh)) ELSE None]

\* ------------------------------------------------------------ the inputs
PA == <<0, 0, 0>>
PB == <<1, 2, 3>>
Batches == {<<>>, <<PA, PB>>}
Masses == {1, 2}
Chains == {<<>>, <<"addone", "laplace">>, <<"addone", "raise">>}

\* the caller: a pipeline driver makes any call; a snapshot driver saves and
\* restores the spectral field around transfers and c2r
Drivers == {"pipeline", "snapshots"}
Budget(d) == IF d = "pipeline" THEN MaxOps ELSE MaxStackOps
Makes(d, op) == d = "pipeline" \/ op \in {"push", "pop", "transfer", "c2r"}

\* what the allocation holds past the zeroed real view: not initialised
Uninit == {0, 1}

\* ------------------------------------------------------------- the state
VARIABLES
    buf,        \* the doubles of the one backing allocation
    stack,      \* self.stack: saved copies of the complex view
    last,       \* the call that ran last, its arguments and its outcome
    pre,        \* buf, stack and saved as they were when that call started
    last2,      \* the call before it
    pre2,       \* buf, stack and saved as they were when that one started
    saved,      \* the complex view as it was at each push not yet popped
    fwdDone,    \* an r2c has completed on this mesh
    direct,     \* the caller has called push or pop directly
    failed,     \* some call has raised
    nops,       \* calls made
    driver,     \* the kind of caller
    steps,      \* the steps the last call took, in order
    ret,        \* what the last call returned
    twin,       \* a mesh built with verbose = True that receives the same calls
    fin,        \* the arguments of a function applied on its own
    fout,       \* what it returned, None before it ran
    ranks       \* per rank of a parallel job: the collectives it issues and where it is

meshvars == <<buf, stack, last, pre, last2, pre2, saved, fwdDone, direct, failed, nops, driver,
              steps, ret, twin>>
vars == <<meshvars, fin, fout, ranks>>

Call(op, pos, mass, chain, outcome) ==
    [op |-> op, pos |-> pos, mass |-> mass, chain |-> chain, outcome |-> outcome]

NoCall == Call("init", None, 0, <<>>, "ok")

Twin(b, st, taken, outcome, returned) ==
    [buf |-> Stored(b), stack |-> st, steps |-> taken, outcome |-> outcome, ret |-> returned]

NoInput == [fn |-> "none"]

\* the precisions a caller may pass; "bogus" is not a numpy dtype at all
Dtypes == {"f8", "f4", "f2", "i4", "bogus"}

\* what __init__ creates, in the order it creates it
Resources == <<"procmesh", "partition", "buffer", "real", "complex", "forward", "backward",
               "domain", "stack">>

\* __init__ that validates dtype after the plans are made
construct_late(dtype, g) ==
    IF dtype = "bogus"
    THEN [outcome |-> "TypeError", created |-> <<"comm">>, buf |-> None, stack |-> None]
    ELSE IF dtype \notin {"f8", "f4"}
    THEN [outcome |-> "ValueError", created |-> <<"comm">> \o SubSeq(Resources, 1, 7),
          buf |-> None, stack |-> None]
    ELSE [outcome |-> "ok", created |-> <<"comm">> \o Resources,
          buf |-> Some([a \in Addr |-> IF a \in RealAddrs THEN 0 ELSE g]),
          stack |-> Some(<<>>)]

\* __init__(BoxSize, Nmesh, dtype=dtype) over a buffer whose memory holds g
construct(dtype, g) ==
    IF dtype = "bogus"
    THEN [outcome |-> "TypeError", created |-> <<"comm">>, buf |-> None, stack |-> None]
    ELSE IF dtype \notin {"f8", "f4"}
    THEN [outcome |-> "ValueError", created |-> <<"comm">>, buf |-> None, stack |-> None]
    ELSE [outcome |-> "ok", created |-> <<"comm">> \o Resources,
          buf |-> Some([a \in Addr |-> IF a \in RealAddrs THEN 0 ELSE g]),
          stack |-> Some(<<>>)]

\* __init__: real[:] = 0, stack = []
MeshInit ==
    /\ \E g \in Uninit : buf = construct("f8", g).buf[1]
    /\ stack = construct("f8", 0).stack[1]
    /\ last = NoCall
    /\ pre = [buf |-> buf, stack |-> stack, saved |-> <<>>]
    /\ last2 = NoCall
    /\ pre2 = pre
    /\ saved = <<>>
    /\ fwdDone = FALSE
    /\ direct = FALSE
    /\ failed = FALSE
    /\ nops = 0
    /\ driver \in Drivers
    /\ steps = <<>>
    /\ ret = None
    /\ twin = Twin(buf, stack, <<>>, "ok", None)

Init ==
    /\ MeshInit
    /\ fin = NoInput
    /\ fout = None
    /\ ranks = <<>>

\* bookkeeping shared by every call
\* the caller still has a call to make and makes calls of this kind
CanCall(op) == nops < Budget(driver) /\ Makes(driver, op)

Step(call) ==
    /\ CanCall(call.op)
    /\ nops' = nops + 1
    /\ driver' = driver
    /\ last' = call
    /\ last2' = last
    /\ pre' = [buf |-> buf, stack |-> stack, saved |-> saved]
    /\ pre2' = pre
    /\ failed' = (failed \/ call.outcome # "ok")
    /\ UNCHANGED <<fin, fout, ranks>>

Clear ==
    /\ Step(Call("clear", None, 0, <<>>, "ok"))
    /\ buf' = clear(buf)
    /\ steps' = <<"clear">>
    /\ ret' = None
    /\ twin' = Twin(clear(twin.buf), twin.stack, <<"clear">>, "ok", None)
    /\ UNCHANGED <<stack, saved, fwdDone, direct>>

Paint ==
    \E pos \in Batches \ {<<>>}, mass \in Masses :
        /\ Step(Call("paint", Some(pos), mass, <<>>, "ok"))
        /\ buf' = paint(buf, pos, mass)
        /\ steps' = <<"paint">>
        /\ ret' = None
        /\ twin' = Twin(paint(twin.buf, pos, mass), twin.stack, <<"paint">>, "ok", None)
        /\ UNCHANGED <<stack, saved, fwdDone, direct>>

R2C ==
    \E pos \in {None} \cup {Some(p) : p \in Batches \ {<<>>}}, mass \in Masses :
        /\ CanCall("r2c")
        /\ pos = None => mass = 1
        /\ \E res \in {r2c(buf, pos, mass)}, tw \in {r2c_on(twin.buf, pos, mass, TRUE, 0)} :
            /\ Step(Call("r2c", pos, mass, <<>>, "ok"))
            /\ buf' = res.buf
            /\ steps' = res.steps
            /\ ret' = None
            /\ twin' = Twin(tw.buf, twin.stack, tw.steps, "ok", None)
            /\ fwdDone' = TRUE
            /\ UNCHANGED <<stack, saved, direct>>

Push ==
    /\ Step(Call("push", None, 0, <<>>, "ok"))
    /\ stack' = push(buf, stack)
    /\ steps' = <<"push">>
    /\ ret' = None
    /\ twin' = Twin(twin.buf, push(twin.buf, twin.stack), <<"push">>, "ok", None)
    /\ saved' = Append(saved, ComplexView(buf))
    /\ direct' = TRUE
    /\ UNCHANGED <<buf, fwdDone>>

Pop ==
    /\ CanCall("pop")
    /\ \E res \in {pop(buf, stack)} :
        /\ Step(Call("pop", None, 0, <<>>, res.outcome))
        /\ buf' = res.buf
        /\ stack' = res.stack
        /\ steps' = <<"pop">>
        /\ ret' = None
        /\ twin' = LET tw == pop(twin.buf, twin.stack)
                   IN  Twin(tw.buf, tw.stack, <<"pop">>, tw.outcome, None)
        /\ saved' = IF saved = <<>> THEN saved ELSE SubSeq(saved, 1, Len(saved) - 1)
        /\ direct' = TRUE
        /\ UNCHANGED fwdDone

Transfer ==
    \E chain \in Chains :
        /\ CanCall("transfer")
        /\ \E res \in {transfer(buf, chain)} :
            /\ Step(Call("transfer", None, 0, chain, res.outcome))
            /\ buf' = res.buf
            /\ steps' = <<"kvectors">> \o res.called
            /\ ret' = None
            /\ twin' = LET tw == transfer(twin.buf, chain)
                       IN  Twin(tw.buf, twin.stack, <<"kvectors">> \o tw.called, tw.outcome, None)
            /\ UNCHANGED <<stack, saved, fwdDone, direct>>

C2R ==
    \E chain \in Chains :
        /\ CanCall("c2r")
        /\ \E res \in {c2r(buf, stack, chain)} :
            /\ Step(Call("c2r", None, 0, chain, res.outcome))
            /\ buf' = res.buf
            /\ stack' = res.stack
            /\ steps' = res.steps
            /\ ret' = None
            /\ twin' = LET tw == c2r_on(twin.buf, twin.stack, chain, TRUE, 0)
                       IN  Twin(tw.buf, tw.stack, tw.steps, tw.outcome, None)
            /\ saved' = IF res.outcome = "ok" THEN saved ELSE Append(saved, ComplexView(buf))
            /\ UNCHANGED <<fwdDone, direct>>

Readout ==
    \E pos \in Batches :
        /\ CanCall("readout")
        /\ \E res \in {readout(buf, Some(pos))} :
            /\ Step(Call("readout", Some(pos), 0, <<>>, "ok"))
            /\ buf' = res.buf
            /\ ret' = res.ret
            /\ steps' = <<"readout">>
            /\ twin' = LET tw == readout(twin.buf, Some(pos))
                       IN  Twin(tw.buf, twin.stack, <<"readout">>, "ok", tw.ret)
            /\ UNCHANGED <<stack, saved, fwdDone, direct>>

Next == Clear \/ Paint \/ R2C \/ Push \/ Pop \/ Transfer \/ C2R \/ Readout

Spec == Init /\ [][Next]_vars

\* ------------------------------------- functions applied on their own
KVectorInputs ==
    {[fn |-> "kvector", n |-> n, start |-> o, extent |-> e] :
        n \in 2 .. MaxNmesh, o \in 0 .. (MaxNmesh - 1), e \in 1 .. MaxNmesh}

\* positions (numerators over PosDen) and partition starts of a rank
Coords == (0 - 1) .. MaxCoord
Starts == 0 .. (Nmesh - 1)

TransformInputs ==
    {[fn |-> "transform", x |-> x, start |-> st] :
        x \in Coords \X Coords \X Coords, st \in Starts \X Starts \X {0}}

ConstructInputs ==
    {[fn |-> "construct", dtype |-> t, garbage |-> g] : t \in Dtypes, g \in Uninit}

PureInputs ==
    {i \in KVectorInputs : i.start + i.extent <= i.n} \cup TransformInputs \cup ConstructInputs

InitPure ==
    /\ MeshInit
    /\ buf = [a \in Addr |-> 0]
    /\ driver = "pipeline"
    /\ fin \in PureInputs
    /\ fout = None
    /\ ranks = <<>>

\* transfer builds the k-vector of one axis
BuildKVector ==
    /\ fin.fn = "kvector"
    /\ fout = None
    /\ fout' = Some(kvector(fin.n, fin.start, fin.extent))
    /\ UNCHANGED <<meshvars, fin, ranks>>

\* transform and transform0 of one position on a rank
ApplyTransforms ==
    /\ fin.fn = "transform"
    /\ fout = None
    /\ fout' = Some([local |-> transform_at(fin.x, fin.start), global |-> transform0(fin.x)])
    /\ UNCHANGED <<meshvars, fin, ranks>>

\* ParticleMesh(BoxSize, Nmesh, dtype=dtype)
Construct ==
    /\ fin.fn = "construct"
    /\ fout = None
    /\ fout' = Some(construct(fin.dtype, fin.garbage))
    /\ UNCHANGED <<meshvars, fin, ranks>>

NextPure == BuildKVector \/ ApplyTransforms \/ Construct

SpecPure == InitPure /\ [][NextPure]_vars

\* ------------------------------------------- a job on several MPI ranks
Ranks == 0 .. (NRanks - 1)
MpiCalls == {"decompose", "r2c", "c2r"}
Programs == UNION {[1 .. n -> MpiCalls] : n \in 1 .. MaxCalls}

\* the particles and the uninitialised memory differ from rank to rank
LocalBatch(rank) == IF rank = 0 THEN <<PA, PB>> ELSE <<>>
LocalBuffer(rank) == construct("f8", rank % 2).buf[1]

\* decompose(pos): domain.decompose is collective over the communicator
decompose(b, pos) == [buf |-> b, steps |-> <<"decompose">>]

RECURSIVE OnlyCollective(_)
OnlyCollective(taken) ==
    IF taken = <<>> THEN <<>>
    ELSE IF Head(taken) \in Collective THEN <<Head(taken)>> \o OnlyCollective(Tail(taken))
    ELSE OnlyCollective(Tail(taken))

\* one call of the program on the mesh of a rank
RunCall(op, b, st, verbose, rank) ==
    IF op = "decompose"
    THEN LET d == decompose(b, LocalBatch(rank))
         IN  [buf |-> d.buf, stack |-> st, steps |-> d.steps]
    ELSE IF op = "r2c"
    THEN LET f == r2c_on(b, Some(LocalBatch(rank)), 1, verbose, rank)
         IN  [buf |-> f.buf, stack |-> st, steps |-> f.steps]
    ELSE LET c == c2r_on(b, st, <<"addone", "laplace">>, verbose, rank)
         IN  [buf |-> c.buf, stack |-> c.stack, steps |-> c.steps]

\* the collectives one rank issues while it runs the program on its mesh
RECURSIVE collectives(_, _, _, _, _)
collectives(prog, b, st, verbose, rank) ==
    IF prog = <<>> THEN <<>>
    ELSE CHOOSE issued \in
            {OnlyCollective(res.steps) \o collectives(Tail(prog), res.buf, res.stack, verbose, rank) :
                res \in {RunCall(Head(prog), b, st, verbose, rank)}} : TRUE

\* a rank that leaves out its i-th collective, or issues it after the next
SkipAt(s, i) == [j \in 1 .. (Len(s) - 1) |-> IF j < i THEN s[j] ELSE s[j + 1]]
SwapAt(s, i) == [j \in 1 .. Len(s) |-> IF j = i THEN s[i + 1] ELSE IF j = i + 1 THEN s[i] ELSE s[j]]

NoFault == [kind |-> "none", rank |-> 0, at |-> 0]
Faults ==
    {NoFault} \cup {[kind |-> k, rank |-> r, at |-> i] :
                        k \in {"skip", "swap"}, r \in Ranks, i \in 1 .. (3 * MaxCalls)}

\* the collectives rank r issues in the job
Issued(job, r) ==
    LET proper == collectives(job.prog, LocalBuffer(r), <<>>, job.verbose, r)
    IN  IF job.fault.kind = "none" \/ job.fault.rank # r THEN proper
        ELSE IF job.fault.kind = "skip" THEN SkipAt(proper, job.fault.at)
        ELSE SwapAt(proper, job.fault.at)

\* a fault has to name a collective the rank would issue, and a swap two
\* different ones
Applies(job) ==
    LET proper == collectives(job.prog, LocalBuffer(job.fault.rank), <<>>, job.verbose,
                              job.fault.rank)
    IN  \/ job.fault.kind = "none"
        \/ job.fault.kind = "skip" /\ job.fault.at <= Len(proper)
        \/ /\ job.fault.kind = "swap"
           /\ job.fault.at < Len(proper)
           /\ proper[job.fault.at] # proper[job.fault.at + 1]

Jobs ==
    {job \in [fn : {"job"}, prog : Programs, verbose : BOOLEAN, fault : Faults] : Applies(job)}

InitMPI ==
    /\ MeshInit
    /\ buf = [a \in Addr |-> 0]
    /\ driver = "pipeline"
    /\ fin \in Jobs
    /\ fout = None
    /\ ranks = [r \in Ranks |-> [todo |-> Issued(fin, r), pc |-> 1, waiting |-> FALSE]]

Done(r) == ~ranks[r].waiting /\ ranks[r].pc > Len(ranks[r].todo)

\* rank r reaches its next collective call and blocks in it
Enter(r) ==
    /\ ~ranks[r].waiting
    /\ ranks[r].pc <= Len(ranks[r].todo)
    /\ ranks' = [ranks EXCEPT ![r].waiting = TRUE]
    /\ UNCHANGED <<meshvars, fin, fout>>

\* a collective returns on every rank once every rank is in the same one
Complete ==
    /\ \A r \in Ranks : ranks[r].waiting
    /\ \A r \in Ranks : ranks[r].todo[ranks[r].pc] = ranks[0].todo[ranks[0].pc]
    /\ ranks' = [r \in Ranks |-> [ranks[r] EXCEPT !.pc = @ + 1, !.waiting = FALSE]]
    /\ UNCHANGED <<meshvars, fin, fout>>

NextMPI == (\E r \in Ranks : Enter(r)) \/ Complete

\* every rank is a process of its own that keeps running
SpecMPI ==
    /\ InitMPI
    /\ [][NextMPI]_vars
    /\ \A r \in Ranks : WF_vars(Enter(r))
    /\ WF_vars(Complete)

TypeOK ==
    /\ buf \in [Addr -> Int]
    /\ nops \in 0 .. Budget(driver)
    /\ driver \in Drivers

\* ============================================================== claims
IsZero(r) == \A x \in Cells : r[x] = 0
Returned(op) == last.op = op /\ last.outcome = "ok"

\* the buffer of a freshly constructed mesh whose tail holds g
Fresh(g) == [a \in Addr |-> IF a \in RealAddrs THEN 0 ELSE g]

\* C1: after clear() every cell of the real view is zero.
C1_ClearZeroes == last.op = "clear" => IsZero(RealView(buf))

\* C2: when c2r(chain) returns normally the complex view is what it was
\* before the call.
C2_ComplexRestored ==
    Returned("c2r") => ComplexView(buf) = ComplexView(pre.buf)

\* a c2r returned whose chain changed the spectral field on the way
C2_Witness ==
    /\ Returned("c2r")
    /\ fwdDone
    /\ ComplexView(transfer(pre.buf, last.chain).buf) # ComplexView(pre.buf)

\* what the backward transform of the chain applied to buffer b writes
BackwardOf(b, chain) == RealView(backward_execute(transfer(b, chain).buf))

\* C3: when c2r(chain) returns on a mesh whose complex view an r2c has
\* filled, the real view holds the backward transform of the chain applied
\* to the pre-call complex field, and the complex view is unchanged.
C3_RealHoldsBackward ==
    (Returned("c2r") /\ fwdDone) =>
        /\ RealView(buf) = BackwardOf(pre.buf, last.chain)
        /\ ComplexView(buf) = ComplexView(pre.buf)

\* C4: after an r2c, two c2r calls in a row with the same non-empty chain
\* leave the same real view.
C4_SameRealTwice ==
    (/\ fwdDone
     /\ Returned("c2r")
     /\ last2.op = "c2r" /\ last2.outcome = "ok"
     /\ last.chain = last2.chain
     /\ last.chain # <<>>)
    => RealView(buf) = RealView(pre.buf)

\* r2c of particles, then the same non-empty chain through c2r twice
C4_Witness ==
    /\ fwdDone
    /\ Returned("c2r")
    /\ last2.op = "c2r" /\ last2.outcome = "ok"
    /\ last.chain = last2.chain
    /\ last.chain # <<>>
    /\ ~IsZero(RealView(buf))

\* C5: r2c with positions gives the complex view the same call gives on a
\* freshly constructed mesh.
C5_R2CHistoryIndependent ==
    (last.op = "r2c" /\ last.pos # None) =>
        \A g \in Uninit : ComplexView(buf) = ComplexView(r2c(Fresh(g), last.pos, last.mass).buf)

\* C6: paint(p, m1); paint(p, m2) with no call in between leaves the real
\* view that one paint(p, m1 + m2) leaves from the same starting real view.
C6_PaintAdditive ==
    (last.op = "paint" /\ last2.op = "paint" /\ last.pos = last2.pos) =>
        RealView(buf) = RealView(paint(pre2.buf, last.pos[1], last2.mass + last.mass))

\* two paints of the same particles with different weights, on a canvas
\* that already held something
C6_Witness ==
    /\ last.op = "paint" /\ last2.op = "paint" /\ last.pos = last2.pos
    /\ last.mass # last2.mass
    /\ ~IsZero(RealView(pre2.buf))
    /\ RealView(buf) # RealView(pre.buf)

\* C7: the stack holds, in push order, the complex view as it was at each
\* push not yet popped; a pop that returns writes the most recent of them
\* over the complex view and removes it; push(); pop() leaves the complex
\* view as it was.
C7_StackLIFO ==
    /\ stack = saved
    /\ Returned("pop") =>
          /\ ComplexView(buf) = pre.saved[Len(pre.saved)]
          /\ saved = SubSeq(pre.saved, 1, Len(pre.saved) - 1)
    /\ (Returned("pop") /\ last2.op = "push") =>
          ComplexView(buf) = ComplexView(pre2.buf)

\* a pop from two different snapshots, after the field was changed again
C7_Witness ==
    /\ Returned("pop")
    /\ Len(pre.stack) = 2
    /\ pre.stack[1] # pre.stack[2]
    /\ ComplexView(pre.buf) # pre.stack[2]

\* C8: pop() on an empty stack raises and leaves the buffer and the stack
\* as they were.
C8_PopEmptyRaises ==
    (last.op = "pop" /\ pre.stack = <<>>) =>
        /\ last.outcome # "ok"
        /\ buf = pre.buf
        /\ stack = <<>>

\* a pop was called on an empty stack
C8_Witness ==
    /\ last.op = "pop"
    /\ pre.stack = <<>>
    /\ last.outcome = "IndexError"
    /\ \E a \in Addr : buf[a] # 0

\* C9 as stated: no c2r returns normally on a mesh on which no r2c has
\* completed.
C9_C2RBeforeR2CRaises == ~(Returned("c2r") /\ ~fwdDone)

NoRaise(chain) == \A i \in 1 .. Len(chain) : ~Raises(chain[i])

\* C9 as amended: c2r on a mesh on which no r2c has completed is not
\* detected; with a chain whose functions return it returns normally, with
\* the complex view and the stack as they were before the call.
C9_C2RBeforeR2CReturns ==
    (last.op = "c2r" /\ ~fwdDone /\ NoRaise(last.chain)) =>
        /\ last.outcome = "ok"
        /\ ComplexView(buf) = ComplexView(pre.buf)
        /\ stack = pre.stack

\* c2r ran on a mesh that was painted and never forward transformed
C9_Witness ==
    /\ Returned("c2r")
    /\ ~fwdDone
    /\ ~IsZero(RealView(pre.buf))

\* C10: a c2r that returns normally leaves the stack as deep as it found
\* it; while the caller has not called push or pop and no call has raised,
\* the stack is empty between calls.
C10_DepthRestored ==
    /\ Returned("c2r") => Len(stack) = Len(pre.stack)
    /\ (~direct /\ ~failed) => stack = <<>>

\* two c2r calls returned in a run without push, pop or a raise
C10_Witness ==
    /\ Returned("c2r")
    /\ last2.op = "c2r"
    /\ ~direct /\ ~failed
    /\ stack = <<>>

\* C11: the k-vector of an axis has one entry per local index; entry i at
\* offset o is the integer i + o when i + o < Nmesh / 2 and i + o - Nmesh
\* otherwise (times 2 pi / Nmesh), for even and odd Nmesh.
C11_FoldRule ==
    (fin.fn = "kvector" /\ fout # None) =>
        /\ Len(fout[1]) = fin.extent
        /\ \A i \in 1 .. fin.extent :
              LET t == (i - 1) + fin.start
              IN  fout[1][i] = IF 2 * t < fin.n THEN t ELSE t - fin.n

\* C12: transfer(chain) builds the k-vectors once, then calls every function
\* of the chain once, in the order given, each on the complex view the ones
\* before it left; it changes the complex view in no other way.
C12_ChainInOrder ==
    Returned("transfer") =>
        LET c0 == ComplexView(pre.buf)
            c1 == ApplyTransfer(last.chain[1], c0, kvectors)
            c2 == ApplyTransfer(last.chain[2], c1, kvectors)
        IN  /\ steps = <<"kvectors">> \o last.chain
            /\ Len(last.chain) = 0 => buf = pre.buf
            /\ Len(last.chain) = 1 => ComplexView(buf) = c1
            /\ Len(last.chain) = 2 => ComplexView(buf) = c2
            /\ Len(last.chain) <= 2

\* a chain of two functions ran whose order matters
C12_Witness ==
    /\ Returned("transfer")
    /\ Len(last.chain) = 2
    /\ fwdDone
    /\ ComplexView(buf) #
          ApplyTransfer(last.chain[1],
                        ApplyTransfer(last.chain[2], ComplexView(pre.buf), kvectors), kvectors)

\* C14: on every rank and for every position, transform0(x) is
\* transform(x) plus the rank's local start on each axis (here in half
\* cells), and evaluating the two maps leaves the mesh as it was.
C14_AffineConsistency ==
    (fin.fn = "transform" /\ fout # None) =>
        /\ \A d \in 1 .. Ndim : fout[1].global[d] = fout[1].local[d] + 2 * fin.start[d]
        /\ buf = [a \in Addr |-> 0]
        /\ stack = <<>>

\* both maps were evaluated on a rank whose partition does not start at the
\* origin, for a position away from the origin
C14_Witness ==
    /\ fin.fn = "transform"
    /\ fout # None
    /\ fin.start = <<1, 1, 0>>
    /\ fin.x = <<3, 0 - 1, 2>>
    /\ fout[1].local # fout[1].global

\* C15: construction with a precision other than 'f4' or 'f8' ends in an
\* error before a partition, buffer, plan or stack exists; with 'f4' or 'f8'
\* it yields a mesh whose real view is all zero and whose stack is empty.
C15_PrecisionChecked ==
    (fin.fn = "construct" /\ fout # None) =>
        IF fin.dtype \in {"f8", "f4"}
        THEN /\ fout[1].outcome = "ok"
             /\ IsZero(RealView(fout[1].buf[1]))
             /\ fout[1].stack = Some(<<>>)
        ELSE /\ fout[1].outcome \in {"ValueError", "TypeError"}
             /\ \A i \in 1 .. Len(fout[1].created) :
                   fout[1].created[i] \notin {"partition", "buffer", "forward", "backward", "stack"}
             /\ fout[1].buf = None
             /\ fout[1].stack = None

\* a half-precision mesh was asked for and construction raised
C15_Witness ==
    /\ fin.fn = "construct"
    /\ fin.dtype = "f2"
    /\ fout # None
    /\ fout[1].outcome = "ValueError"

\* the functions of a chain up to and including the first one that raises
RECURSIVE UpToRaise(_)
UpToRaise(chain) ==
    IF chain = <<>> THEN <<>>
    ELSE IF Raises(Head(chain)) THEN <<Head(chain)>>
    ELSE <<Head(chain)>> \o UpToRaise(Tail(chain))

\* C16: when a transfer function raises inside c2r, neither the backward
\* transform nor the pop runs: the stack is one deeper than on entry with
\* the pre-chain complex field on top, and the complex view is as the
\* functions before the failing one left it; a pop() that follows restores
\* the pre-chain complex field and the stack of before the c2r.
C16_RaiseLeavesSnapshot ==
    /\ (last.op = "c2r" /\ last.outcome = "TransferError") =>
          LET ran == UpToRaise(last.chain)
              c0 == ComplexView(pre.buf)
          IN  /\ steps = <<"push", "kvectors">> \o ran
              /\ stack = Append(pre.stack, c0)
              /\ Len(ran) = 1 => buf = pre.buf
              /\ Len(ran) = 2 => ComplexView(buf) = ApplyTransfer(ran[1], c0, kvectors)
              /\ Len(ran) \in {1, 2}
    /\ (last.op = "pop" /\ last2.op = "c2r" /\ last2.outcome = "TransferError") =>
          /\ last.outcome = "ok"
          /\ ComplexView(buf) = ComplexView(pre2.buf)
          /\ stack = pre2.stack

\* after a forward transform, the second function of a chain raised inside
\* c2r and the pop that followed undid what the first function had written
C16_Witness ==
    /\ last.op = "pop"
    /\ last2.op = "c2r"
    /\ last2.outcome = "TransferError"
    /\ Len(last2.chain) = 2
    /\ fwdDone
    /\ ComplexView(pre.buf) # ComplexView(buf)
    /\ Len(pre.stack) = Len(stack) + 1

\* a complex field multiplied by the integer f
ScaleC(c, f) == [k \in Modes |-> <<f * c[k][1], f * c[k][2]>>]

\* (1.0 / BoxSize) ** 3
Rescale == InvBoxSize * InvBoxSize * InvBoxSize

\* C18: every r2c multiplies the real view by (1/BoxSize)^3 once before the
\* forward transform, whether or not it painted and whether or not an
\* earlier r2c already did: the complex view it leaves is that factor times
\* the transform of the unscaled real view, and two r2c() in a row leave
\* the factor squared times the twice-transformed buffer.
C18_RescaleEveryCall ==
    /\ Returned("r2c") =>
          LET field == IF last.pos # None
                       THEN paint(clear(pre.buf), last.pos[1], last.mass)
                       ELSE pre.buf
          IN  /\ ComplexView(buf) = ScaleC(ComplexView(forward_execute(field)), Rescale)
              /\ steps = (IF last.pos # None THEN <<"clear", "paint">> ELSE <<>>)
                         \o <<"scale", "forward">>
    /\ (Returned("r2c") /\ last.pos = None /\ last2.op = "r2c" /\ last2.pos = None) =>
          ComplexView(buf) =
              ScaleC(ComplexView(forward_execute(forward_execute(pre2.buf))), Rescale * Rescale)

\* a painted field went through r2c() twice in a row and is not zero
C18_Witness ==
    /\ Returned("r2c")
    /\ last.pos = None
    /\ last2.op = "r2c"
    /\ last2.pos = None
    /\ \E k \in Modes : ComplexView(buf)[k] # <<0, 0>>
    /\ \E x \in Cells : RealView(pre2.buf)[x] # 0

\* C20: readout(positions) leaves the whole buffer, hence both views, and
\* the stack as they were, and returns one value per position; for an empty
\* batch it returns an empty result.
C20_ReadoutReadOnly ==
    last.op = "readout" =>
        /\ last.outcome = "ok"
        /\ buf = pre.buf
        /\ stack = pre.stack
        /\ ret # None
        /\ Len(ret[1]) = Len(last.pos[1])
        /\ last.pos[1] = <<>> => ret = Some(<<>>)

\* two positions were read out of a painted field and gave values that are
\* not all zero
C20_Witness ==
    /\ last.op = "readout"
    /\ last2.op = "paint"
    /\ Len(last.pos[1]) = 2
    /\ \E i \in 1 .. 2 : ret[1][i] # 0
    /\ \E x \in Cells : RealView(buf)[x] # 0

\* the steps of a call without the diagnostic ones
Diagnostics == {"allreduce", "print", "barrier"}
RECURSIVE Quiet(_)
Quiet(taken) ==
    IF taken = <<>> THEN <<>>
    ELSE IF Head(taken) \in Diagnostics THEN Quiet(Tail(taken))
    ELSE <<Head(taken)>> \o Quiet(Tail(taken))

\* C19: a mesh built with verbose = True that receives the same calls as one
\* built with verbose = False has the same buffer (real and complex view)
\* and stack after every call, every call ends the same way and returns the
\* same value, and the steps taken differ only by the diagnostic allreduce,
\* print and barrier.
C19_VerboseNeutral ==
    /\ twin.buf = buf
    /\ twin.stack = stack
    /\ twin.outcome = last.outcome
    /\ twin.ret = ret
    /\ Quiet(twin.steps) = steps
    /\ (Returned("r2c") \/ Returned("c2r")) =>
          Len(twin.steps) = Len(steps) + 3

\* a c2r after a forward transform of a painted field printed its
\* diagnostic on the verbose mesh, with a chain that changed the field
C19_Witness ==
    /\ Returned("c2r")
    /\ fwdDone
    /\ \E i \in 1 .. Len(twin.steps) : twin.steps[i] = "print"
    /\ last.chain # <<>>
    /\ \E k \in Modes : ComplexView(buf)[k] # <<0, 0>>
    /\ twin.buf = buf

\* C13: when every rank runs the same decompose/r2c/c2r calls with the same
\* verbose flag, every rank issues the same collectives in the same order,
\* whatever its particles, its memory and its rank number, and every rank
\* runs to completion; when one rank leaves out a collective or issues it
\* out of order, every other rank ends up blocked in a collective for ever.
C13_CollectivesAgree ==
    /\ [](fin.fault.kind = "none" => \A r \in Ranks : ranks[r].todo = ranks[0].todo)
    /\ (fin.fault.kind = "none") => <>(\A r \in Ranks : Done(r))
    /\ (fin.fault.kind # "none") =>
          \A r \in Ranks : (r # fin.fault.rank => <>[](ranks[r].waiting))

\* a verbose job in which one rank left out the barrier: that rank waits in
\* the forward transform while another waits in the barrier
C13_Witness ==
    /\ fin.fault.kind = "skip"
    /\ fin.verbose
    /\ \A r \in Ranks : ranks[r].waiting
    /\ ranks[fin.fault.rank].todo[ranks[fin.fault.rank].pc] = "forward"
    /\ \E r \in Ranks : ranks[r].todo[ranks[r].pc] = "barrier"

====
